---------------------------- MODULE Spec2Model ----------------------------
(***************************************************************************)
(* srgn: the templated replacement action.                                 *)
(*                                                                         *)
(*   src/src/actions/replace/variables.rs   inject_variables: the scan of  *)
(*       a replacement template for `$name`, `$0`, `${name}`, `${{name}}`  *)
(*   src/src/actions/replace/mod.rs         Replacement: try_from, act,    *)
(*       act_with_context                                                  *)
(*                                                                         *)
(* A template is a sequence of characters (one-character strings).  The    *)
(* scan counts characters (`input.chars().enumerate()`), while the length  *)
(* of a template (`input.len()`) counts UTF-8 bytes; both are kept apart.  *)
(*                                                                         *)
(* The body of inject_variables fills the map `variables` with the ranges  *)
(* of the variables it finds and returns it; the map starts empty          *)
(* (variables.rs:17), as in the call `inject_variables(&unescaped)` of     *)
(* Replacement::try_from.                                                  *)
(***************************************************************************)
EXTENDS Integers, Sequences, FiniteSets

(***************************************************************************)
(* Bounds of the model.                                                    *)
(***************************************************************************)
MaxLen == 6

\* the longest run of digits, and of leading zeros, of a numbered variable
MaxDigits == 20

MaxZeros == 2

\* the longest string handed to Replacement::try_from
MaxRaw == 5

\* the longest input handed to a closure
MaxFragment == 2

\* the most captures a custom query names
MaxCaptures == 1

\* the length in bytes of the input that is scoped, and the most nodes a capture hits
MaxPos == 3

MaxNodes == 1

\* the length of the input a view is built from, and the most actions applied to a view
MaxView == 3

MaxActions == 2

(***************************************************************************)
(* Characters.  The classes are those of the match arms of                 *)
(* inject_variables; Alphabet holds one representative of each class the   *)
(* scan tells apart.  The representative of "any other character" is two   *)
(* bytes long in UTF-8; the braces stand for a one-byte other character    *)
(* wherever an arm does not single them out.                               *)
(***************************************************************************)
Dollar == "$"

OpenBrace == "{"

CloseBrace == "}"

NonAscii == "é"

NameStartChars ==
    { "a", "b", "c", "d", "e", "f", "g", "h", "i", "j", "k", "l", "m",
      "n", "o", "p", "q", "r", "s", "t", "u", "v", "w", "x", "y", "z",
      "A", "B", "C", "D", "E", "F", "G", "H", "I", "J", "K", "L", "M",
      "N", "O", "P", "Q", "R", "S", "T", "U", "V", "W", "X", "Y", "Z",
      "_" }

DigitChars == { "0", "1", "2", "3", "4", "5", "6", "7", "8", "9" }

Alphabet == { Dollar, OpenBrace, CloseBrace, "a", "1", NonAscii }

\* c.to_digit(10)
ToDigit(c) ==
    CASE c = "0" -> 0 [] c = "1" -> 1 [] c = "2" -> 2 [] c = "3" -> 3
      [] c = "4" -> 4 [] c = "5" -> 5 [] c = "6" -> 6 [] c = "7" -> 7
      [] c = "8" -> 8 [] c = "9" -> 9

(***************************************************************************)
(* usize.  A value of the 64-bit machine word is held as UsizeLimbs limbs  *)
(* of 16 bits, the least significant first, so that its arithmetic keeps   *)
(* its width.                                                              *)
(***************************************************************************)
LimbBase == 65536

UsizeLimbs == 4

\* `n as usize`, for a small n
Usize(n) ==
    [k \in 1 .. UsizeLimbs |->
        IF k = 1 THEN n % LimbBase ELSE IF k = 2 THEN n \div LimbBase ELSE 0]

\* what `magnitude * 10 + digit` carries into limb k (k = UsizeLimbs + 1: out of the word)
RECURSIVE Carry(_, _, _)
Carry(magnitude, digit, k) ==
    IF k = 1 THEN digit
    ELSE (magnitude[k - 1] * 10 + Carry(magnitude, digit, k - 1)) \div LimbBase

\* `magnitude * 10 + digit` does not fit usize
Overflows(magnitude, digit) == Carry(magnitude, digit, UsizeLimbs + 1) > 0

\* `magnitude * 10 + digit` modulo 2^64
WrappingMulAdd(magnitude, digit) ==
    [k \in 1 .. UsizeLimbs |-> (magnitude[k] * 10 + Carry(magnitude, digit, k)) % LimbBase]

\* char::len_utf8, for the characters of Alphabet
LenUtf8(c) == IF c = NonAscii THEN 2 ELSE 1

\* str::len: the length of a string in bytes
RECURSIVE ByteLen(_)
ByteLen(s) == IF s = <<>> THEN 0 ELSE LenUtf8(Head(s)) + ByteLen(Tail(s))

\* the strings of at most n characters over a set of characters
RECURSIVE Strings(_, _)
Strings(chars, n) ==
    IF n = 0 THEN { <<>> }
    ELSE LET shorter == Strings(chars, n - 1)
         IN  shorter \cup { Append(s, c) : s \in { t \in shorter : Len(t) = n - 1 }, c \in chars }

Templates == Strings(Alphabet, MaxLen)

\* the character c, n times
RECURSIVE Repeated(_, _)
Repeated(c, n) == IF n = 0 THEN << >> ELSE << c >> \o Repeated(c, n - 1)

\* usize::MAX = 2^64 - 1 and usize::MAX + 1, as runs of digits
UsizeMaxDigits ==
    << "1", "8", "4", "4", "6", "7", "4", "4", "0", "7",
       "3", "7", "0", "9", "5", "5", "1", "6", "1", "5" >>

PastUsizeMaxDigits ==
    << "1", "8", "4", "4", "6", "7", "4", "4", "0", "7",
       "3", "7", "0", "9", "5", "5", "1", "6", "1", "6" >>

\* templates that are one unbraced numbered variable: `$`, zeros, a run of digits
NumberedTemplates ==
    { << Dollar >> \o Repeated("0", z) \o Repeated(d, n) :
        z \in 0 .. MaxZeros, d \in { "1", "9" }, n \in 0 .. MaxDigits }
    \cup { << Dollar >> \o UsizeMaxDigits, << Dollar >> \o PastUsizeMaxDigits }

(***************************************************************************)
(* CaptureGroup, ranges, and the states of the scan.                       *)
(***************************************************************************)
Named(name) == [kind |-> "Named", name |-> name, number |-> Usize(0)]

Numbered(magnitude) == [kind |-> "Numbered", name |-> <<>>, number |-> magnitude]

Range(start, end) == [start |-> start, end |-> end]

Noop ==
    [tag |-> "Noop", name |-> <<>>, magnitude |-> Usize(0), start |-> 0, n_braces |-> 0]

MaybeVariableStart ==
    [tag |-> "MaybeVariableStart", name |-> <<>>, magnitude |-> Usize(0), start |-> 0, n_braces |-> 0]

WindUpBraces(n) ==
    [tag |-> "WindUpBraces", name |-> <<>>, magnitude |-> Usize(0), start |-> 0, n_braces |-> n]

BuildingNamedVariable(name, start, n) ==
    [tag |-> "BuildingNamedVariable", name |-> name, magnitude |-> Usize(0), start |-> start, n_braces |-> n]

BuildingNumberedVariable(magnitude, start, n) ==
    [tag |-> "BuildingNumberedVariable", name |-> <<>>, magnitude |-> magnitude, start |-> start, n_braces |-> n]

WindDownNamedVariable(name, start, n) ==
    [tag |-> "WindDownNamedVariable", name |-> name, magnitude |-> Usize(0), start |-> start, n_braces |-> n]

WindDownNumberedVariable(magnitude, start, n) ==
    [tag |-> "WindDownNumberedVariable", name |-> <<>>, magnitude |-> magnitude, start |-> start, n_braces |-> n]

VARIABLES
    raw,        \* the String handed to Replacement::try_from
    input,      \* the template handed to inject_variables (already unescaped)
    i,          \* the number of characters the loop has consumed
    state,      \* the State of the scan
    variables,  \* the map CaptureGroup -> Vec<Range<usize>> being filled
    pc,         \* "new", "scan", "returned", "panicked", "constructed", "failed", "acted";
                \* of a scoper: "query", "custom", "rejected", "ready", "scoped", "panicked"
    result,     \* what inject_variables returned
    replacement,\* the Replacement { repl, variables } that try_from built
    call,       \* the last call of act / act_with_context and its arguments
    outcome,    \* what that call produced
    action,     \* the action that is called: "Replacement", or a closure
    query,      \* the custom query value that FromStr returned, or its error
    scoper,     \* the language scoper { q, nq }
    tree,       \* what the parser returned for the input that is scoped
    scoped,     \* what scope_via_query returned; the ranges a view is built from
    view        \* the view: its fragments, and the actions applied to it so far

vars == << raw, input, i, state, variables, pc, result, replacement, call, outcome, action,
          query, scoper, tree, scoped, view >>

\* the variables of the language scopers
scopeVars == << query, scoper, tree, scoped >>

\* the variables of the replacement action and of the closures
actionVars ==
    << raw, input, i, state, variables, result, replacement, call, outcome, action >>

NoResult == [kind |-> "None", variables |-> << >>, expression |-> << >>]

NoReplacement == [kind |-> "None", repl |-> << >>, variables |-> << >>, expression |-> << >>]

NoCall == [op |-> "none", input |-> << >>, context |-> << >>]

NoOutcome == [kind |-> "None", text |-> << >>]

NoQuery == [kind |-> "None", lang |-> "", source |-> << >>]

\* `Option<TSQuery>`: None
NoTSQuery == [kind |-> "None", captures |-> { }, disabled |-> { }]

NoScoper == [kind |-> "None", lang |-> "", q |-> NoTSQuery, nq |-> NoTSQuery]

NoTree == [kind |-> "None", matches |-> << >>, has_error |-> FALSE]

NotScoped == [kind |-> "None", ranges |-> << >>, message |-> ""]

NoView == [kind |-> "None", fragments |-> << >>, applied |-> << >>]

\* no scoper is involved
NoScoping ==
    /\ query = NoQuery
    /\ scoper = NoScoper
    /\ tree = NoTree
    /\ scoped = NotScoped

\* try_from at its call of inject_variables: no character of Alphabet is a
\* backslash, so that `unescape` has returned the string as it was supplied
Init ==
    /\ input \in Templates
    /\ raw = input
    /\ i = 0
    /\ state = Noop
    /\ variables = << >>
    /\ pc = "scan"
    /\ result = NoResult
    /\ replacement = NoReplacement
    /\ call = NoCall
    /\ outcome = NoOutcome
    /\ action = "Replacement"
    /\ NoScoping
    /\ view = NoView

\* inject_variables on a template that is one numbered variable
InitNumbered ==
    /\ input \in NumberedTemplates
    /\ raw = input
    /\ i = 0
    /\ state = Noop
    /\ variables = << >>
    /\ pc = "scan"
    /\ result = NoResult
    /\ replacement = NoReplacement
    /\ call = NoCall
    /\ outcome = NoOutcome
    /\ action = "Replacement"
    /\ NoScoping
    /\ view = NoView

(***************************************************************************)
(* inject_variables: the loop `for (i, c) in input.chars().enumerate()`.   *)
(* Each match arm is one action; the arms are tried in the order of the    *)
(* source, so an arm's guard excludes what an earlier arm has matched.     *)
(***************************************************************************)
Scanning == pc = "scan" /\ i < Len(input)

\* the character c of the iteration, whose index is i
Current == input[i + 1]

\* `i - ('$'.len_utf8() + '{'.len_utf8() * n)`; n = 0 gives `i - '$'.len_utf8()`
StartOffset(idx, n) == idx - (LenUtf8(Dollar) + LenUtf8(OpenBrace) * n)

\* the class `'a'..='z' | 'A'..='Z' | '_'`
IsNameStart(c) == c \in NameStartChars

\* the class `'0'..='9'`
IsDigit(c) == c \in DigitChars

\* the class `'a'..='z' | 'A'..='Z' | '_' | '0'..='9'`
IsNameContinue(c) == c \in NameStartChars \cup DigitChars

\* `magnitude * 10 + c.to_digit(10) as usize` where the build wraps on overflow
\* (overflow-checks off, the release profile)
Accumulate(magnitude, c) == WrappingMulAdd(magnitude, ToDigit(c))

\* an insertion that replaces the ranges a group already has
InsertOverwriting(map, group, range) ==
    [g \in DOMAIN map \cup {group} |-> IF g = group THEN << range >> ELSE map[g]]

\* `variables.entry(group).and_modify(|ranges| ranges.push(range)).or_insert(vec![range])`
Insert(map, group, range) ==
    [g \in DOMAIN map \cup {group} |->
        IF g = group
        THEN IF g \in DOMAIN map THEN Append(map[g], range) ELSE << range >>
        ELSE map[g]]

\* a stop arm that always returns to Noop, whatever ended the variable
AfterVariableNeutral(c) == Noop

\* `match c { '$' => State::MaybeVariableStart, _ => State::Noop }`
AfterVariable(c) == IF c = Dollar THEN MaybeVariableStart ELSE Noop

\* a fall-back arm that lets a second `$` chain into a new variable start
FallBackChained(c) == IF c = Dollar THEN MaybeVariableStart ELSE Noop

\* the state the arm `(MaybeVariableStart | WindUpBraces(_), _)` returns
FallBack(c) == Noop

\* `Err(VariableExpressionError::MismatchedBraces(input.to_owned()))`
MismatchedBraces(expression) ==
    [kind |-> "MismatchedBraces", variables |-> << >>, expression |-> expression]

\* `Ok(variables)`
Ok(map) == [kind |-> "Ok", variables |-> map, expression |-> << >>]

\* one iteration that goes on to the next character
Advance(next, map) ==
    /\ state' = next
    /\ variables' = map
    /\ i' = i + 1
    /\ UNCHANGED << input, pc, result, replacement, call, outcome, raw, action, scopeVars, view >>

\* the panic "attempt to multiply with overflow" / "attempt to add with overflow"
ArithmeticOverflow == [kind |-> "Panic", variables |-> << >>, expression |-> << >>]

OverflowPanic ==
    /\ result' = ArithmeticOverflow
    /\ pc' = "panicked"
    /\ UNCHANGED << input, i, state, variables, replacement, call, outcome, raw, action, scopeVars, view >>

\* a return out of the loop whose error carries the text scanned so far
AbortWithPrefix ==
    /\ result' = MismatchedBraces(SubSeq(input, 1, i))
    /\ pc' = "returned"
    /\ UNCHANGED << input, i, state, variables, replacement, call, outcome, raw, action, scopeVars, view >>

\* `return Err(..)` out of the loop
Abort ==
    /\ result' = MismatchedBraces(input)
    /\ pc' = "returned"
    /\ UNCHANGED << input, i, state, variables, replacement, call, outcome, raw, action, scopeVars, view >>

ArmDollar ==
    /\ Scanning
    /\ state.tag \in { "Noop", "WindUpBraces" }
    /\ Current = Dollar
    /\ Advance(MaybeVariableStart, variables)

ArmNoop ==
    /\ Scanning
    /\ state.tag = "Noop"
    /\ Current # Dollar
    /\ Advance(Noop, variables)

ArmFirstBrace ==
    /\ Scanning
    /\ state.tag = "MaybeVariableStart"
    /\ Current = OpenBrace
    /\ Advance(WindUpBraces(1), variables)

ArmNextBrace ==
    /\ Scanning
    /\ state.tag = "WindUpBraces"
    /\ Current = OpenBrace
    /\ Advance(WindUpBraces(state.n_braces + 1), variables)

ArmStartNamed ==
    /\ Scanning
    /\ state.tag = "MaybeVariableStart"
    /\ IsNameStart(Current)
    /\ Advance(BuildingNamedVariable(<< Current >>, StartOffset(i, 0), 0), variables)

ArmStartNamedBraced ==
    /\ Scanning
    /\ state.tag = "WindUpBraces"
    /\ IsNameStart(Current)
    /\ Advance(BuildingNamedVariable(<< Current >>, StartOffset(i, state.n_braces),
                                     state.n_braces), variables)

ArmStartNumbered ==
    /\ Scanning
    /\ state.tag = "MaybeVariableStart"
    /\ IsDigit(Current)
    /\ Advance(BuildingNumberedVariable(Usize(ToDigit(Current)), StartOffset(i, 0), 0), variables)

ArmStartNumberedBraced ==
    /\ Scanning
    /\ state.tag = "WindUpBraces"
    /\ IsDigit(Current)
    /\ Advance(BuildingNumberedVariable(Usize(ToDigit(Current)), StartOffset(i, state.n_braces),
                                        state.n_braces), variables)

ArmFallBack ==
    /\ Scanning
    /\ \/ /\ state.tag = "MaybeVariableStart"
          /\ Current # OpenBrace
       \/ /\ state.tag = "WindUpBraces"
          /\ Current \notin { Dollar, OpenBrace }
    /\ ~IsNameStart(Current)
    /\ ~IsDigit(Current)
    /\ Advance(FallBack(Current), variables)

ArmBuildNamed ==
    /\ Scanning
    /\ state.tag = "BuildingNamedVariable"
    /\ IsNameContinue(Current)
    /\ Advance(BuildingNamedVariable(Append(state.name, Current), state.start,
                                     state.n_braces), variables)

\* The arithmetic of `magnitude * 10 + c.to_digit(10) as usize` is that of the
\* build: where the value does not fit usize, a build with overflow checks (the
\* debug profile) panics and a build without them (the release profile) wraps.
ArmBuildNumbered ==
    /\ Scanning
    /\ state.tag = "BuildingNumberedVariable"
    /\ IsDigit(Current)
    /\ \/ Advance(BuildingNumberedVariable(Accumulate(state.magnitude, Current), state.start,
                                           state.n_braces), variables)
       \/ /\ Overflows(state.magnitude, ToDigit(Current))
          /\ OverflowPanic

\* a stop arm whose range takes in the character that ended the variable
ArmStopNamedInclusive ==
    /\ Scanning
    /\ \/ /\ state.tag = "BuildingNamedVariable"
          /\ ~IsNameContinue(Current)
       \/ state.tag = "WindDownNamedVariable"
    /\ state.n_braces = 0
    /\ Advance(AfterVariable(Current),
               Insert(variables, Named(state.name), Range(state.start, i + 1)))

ArmStopNamed ==
    /\ Scanning
    /\ \/ /\ state.tag = "BuildingNamedVariable"
          /\ ~IsNameContinue(Current)
       \/ state.tag = "WindDownNamedVariable"
    /\ state.n_braces = 0
    /\ Advance(AfterVariable(Current),
               Insert(variables, Named(state.name), Range(state.start, i)))

\* a wind-down arm that skips what is not a closing brace instead of failing
ArmWindDownNamedSkipping ==
    /\ Scanning
    /\ \/ /\ state.tag = "BuildingNamedVariable"
          /\ ~IsNameContinue(Current)
       \/ state.tag = "WindDownNamedVariable"
    /\ state.n_braces # 0
    /\ IF Current = CloseBrace
       THEN Advance(WindDownNamedVariable(state.name, state.start, state.n_braces - 1),
                    variables)
       ELSE Advance(state, variables)

ArmWindDownNamed ==
    /\ Scanning
    /\ \/ /\ state.tag = "BuildingNamedVariable"
          /\ ~IsNameContinue(Current)
       \/ state.tag = "WindDownNamedVariable"
    /\ state.n_braces # 0
    /\ IF Current = CloseBrace
       THEN Advance(WindDownNamedVariable(state.name, state.start, state.n_braces - 1),
                    variables)
       ELSE Abort

ArmStopNumbered ==
    /\ Scanning
    /\ \/ /\ state.tag = "BuildingNumberedVariable"
          /\ ~IsDigit(Current)
       \/ state.tag = "WindDownNumberedVariable"
    /\ state.n_braces = 0
    /\ Advance(AfterVariable(Current),
               Insert(variables, Numbered(state.magnitude), Range(state.start, i)))

ArmWindDownNumbered ==
    /\ Scanning
    /\ \/ /\ state.tag = "BuildingNumberedVariable"
          /\ ~IsDigit(Current)
       \/ state.tag = "WindDownNumberedVariable"
    /\ state.n_braces # 0
    /\ IF Current = CloseBrace
       THEN Advance(WindDownNumberedVariable(state.magnitude, state.start,
                                             state.n_braces - 1), variables)
       ELSE Abort

(***************************************************************************)
(* inject_variables after the loop: "Flush out any pending state".         *)
(***************************************************************************)
IsNamedPending(st) == st.tag \in { "BuildingNamedVariable", "WindDownNamedVariable" }

IsNumberedPending(st) ==
    st.tag \in { "BuildingNumberedVariable", "WindDownNumberedVariable" }

\* a flush that records a pending variable whatever its brace depth
FlushResultAnyDepth(st, map, s) ==
    IF IsNamedPending(st)
    THEN Ok(Insert(map, Named(st.name), Range(st.start, ByteLen(s))))
    ELSE IF IsNumberedPending(st)
    THEN Ok(Insert(map, Numbered(st.magnitude), Range(st.start, ByteLen(s))))
    ELSE Ok(map)

\* a flush whose range ends at the number of characters of the template
FlushResultCharEnd(st, map, s) ==
    IF IsNamedPending(st) /\ st.n_braces = 0
    THEN Ok(Insert(map, Named(st.name), Range(st.start, Len(s))))
    ELSE IF IsNumberedPending(st) /\ st.n_braces = 0
    THEN Ok(Insert(map, Numbered(st.magnitude), Range(st.start, Len(s))))
    ELSE IF IsNamedPending(st) \/ IsNumberedPending(st)
    THEN MismatchedBraces(s)
    ELSE Ok(map)

\* what the final `match state` returns for the template s
FlushResult(st, map, s) ==
    IF IsNamedPending(st) /\ st.n_braces = 0
    THEN Ok(Insert(map, Named(st.name), Range(st.start, ByteLen(s))))
    ELSE IF IsNumberedPending(st) /\ st.n_braces = 0
    THEN Ok(Insert(map, Numbered(st.magnitude), Range(st.start, ByteLen(s))))
    ELSE IF IsNamedPending(st) \/ IsNumberedPending(st)
    THEN MismatchedBraces(s)
    ELSE Ok(map)

Flush ==
    /\ pc = "scan"
    /\ i = Len(input)
    /\ result' = FlushResult(state, variables, input)
    /\ pc' = "returned"
    /\ UNCHANGED << input, i, state, variables, replacement, call, outcome, raw, action, scopeVars, view >>

(***************************************************************************)
(* Replacement::try_from, its first statement: `unescape(&replacement)`,   *)
(* the function of the crate `unescape`.  A backslash and the character    *)
(* after it are replaced by the character they stand for; None is returned *)
(* when the character after a backslash stands for nothing, or is missing. *)
(* The numeric forms (`\u`, `\x`, octal digits) need characters that        *)
(* RawAlphabet does not hold and are left out.                             *)
(***************************************************************************)
Backslash == "\\"

Tab == "\t"

\* the characters that follow a backslash in a two-character escape
SimpleEscapes == { "b", "f", "n", "r", "t", "'", "\"", Backslash }

\* the character a two-character escape stands for
Unescaped(c) ==
    CASE c = "b" -> "U+0008"
      [] c = "f" -> "\f"
      [] c = "n" -> "\n"
      [] c = "r" -> "\r"
      [] c = "t" -> Tab
      [] c = "'" -> "'"
      [] c = "\"" -> "\""
      [] c = Backslash -> Backslash

\* the characters that follow a backslash in a numeric escape
NumericEscapes == { "u", "x", "0", "1", "2", "3", "4", "5", "6", "7" }

None == [some |-> FALSE, text |-> << >>]

Some(text) == [some |-> TRUE, text |-> text]

\* unescape::unescape
RECURSIVE Unescape(_)
Unescape(s) ==
    IF s = << >> THEN Some(<< >>)
    ELSE IF Head(s) # Backslash
    THEN LET rest == Unescape(Tail(s))
         IN  IF rest.some THEN Some(<< Head(s) >> \o rest.text) ELSE None
    ELSE IF Len(s) < 2 THEN None
    ELSE CASE s[2] \in SimpleEscapes ->
                LET rest == Unescape(SubSeq(s, 3, Len(s)))
                IN  IF rest.some THEN Some(<< Unescaped(s[2]) >> \o rest.text) ELSE None
           [] s[2] \notin SimpleEscapes \cup NumericEscapes -> None

\* one representative of each class that `unescape` and the scan tell apart
RawAlphabet == { Backslash, "t", "z", Dollar, OpenBrace, CloseBrace, "9", NonAscii }

RawStrings == Strings(RawAlphabet, MaxRaw)

\* `ReplacementCreationError::InvalidEscapeSequences(replacement)`
InvalidEscapeSequences(supplied) ==
    [kind |-> "InvalidEscapeSequences", repl |-> << >>, variables |-> << >>,
     expression |-> supplied]

\* try_from called with a String
InitCreate ==
    /\ raw \in RawStrings
    /\ input = << >>
    /\ i = 0
    /\ state = Noop
    /\ variables = << >>
    /\ pc = "new"
    /\ result = NoResult
    /\ replacement = NoReplacement
    /\ call = NoCall
    /\ outcome = NoOutcome
    /\ action = "Replacement"
    /\ NoScoping
    /\ view = NoView

\* a first statement that takes a string `unescape` rejects as it is
TryFromUnescapeLenient ==
    /\ pc = "new"
    /\ input' = IF Unescape(raw).some THEN Unescape(raw).text ELSE raw
    /\ pc' = "scan"
    /\ UNCHANGED << raw, i, state, variables, result, replacement, call, outcome, action, scopeVars, view >>

\* `let unescaped = unescape(&replacement).ok_or(InvalidEscapeSequences(replacement))?;`
TryFromUnescape ==
    /\ pc = "new"
    /\ IF Unescape(raw).some
       THEN /\ input' = Unescape(raw).text
            /\ pc' = "scan"
            /\ UNCHANGED replacement
       ELSE /\ replacement' = InvalidEscapeSequences(raw)
            /\ pc' = "failed"
            /\ UNCHANGED input
    /\ UNCHANGED << raw, i, state, variables, result, call, outcome, action, scopeVars, view >>

(***************************************************************************)
(* Replacement::try_from, after `unescape`: `input` is the unescaped       *)
(* string, `inject_variables(&unescaped)?` has returned `result`.          *)
(***************************************************************************)
\* `Ok(Self { repl: unescaped, variables })`
NewReplacement(unescaped, map) ==
    [kind |-> "Replacement", repl |-> unescaped, variables |-> map, expression |-> << >>]

\* `ReplacementCreationError::VariableError(MismatchedBraces(expression))`, by `?`
VariableError(expression) ==
    [kind |-> "VariableError", repl |-> << >>, variables |-> << >>, expression |-> expression]

\* the Replacement of `view.replace("_".to_string())`: no variable in it
Underscore == NewReplacement(<< "_" >>, << >>)

TryFrom ==
    /\ pc = "returned"
    /\ IF result.kind = "Ok"
       THEN /\ replacement' = NewReplacement(input, result.variables)
            /\ pc' = "constructed"
       ELSE /\ replacement' = VariableError(result.expression)
            /\ pc' = "failed"
    /\ UNCHANGED << input, i, state, variables, result, call, outcome, raw, action, scopeVars, view >>

(***************************************************************************)
(* impl Action for Replacement.  The texts of the fragments and of the     *)
(* capture groups of a context are drawn from small sets.                  *)
(***************************************************************************)
Fragments == { << >>, << "a" >> }

ContextGroups == { Named(<< "a" >>), Numbered(Usize(1)) }

BoundTexts == { << "R" >> }

\* ScopeContext::CaptureGroups(cgs): a map from some capture groups to their text
Contexts == UNION { [S -> BoundTexts] : S \in SUBSET ContextGroups }

\* a String that the call returned
Returned(text) == [kind |-> "Returned", text |-> text]

\* the call did not return: `todo!()` panics with "not yet implemented"
Panicked == [kind |-> "Panic", text |-> << >>]

\* an act that returns its input
ActResultEcho(self, fragment) == Returned(fragment)

\* Replacement::act: `self.repl.clone()`
ActResult(self, fragment) == Returned(self.repl)

\* Replacement::act_with_context: the match on the context only logs and walks
\* `self.variables` with an empty loop body; the function then ends in `todo!()`
ActWithContextResult(self, fragment, cgs) == Panicked

Act(fragment) ==
    /\ pc = "constructed"
    /\ action = "Replacement"
    /\ call' = [op |-> "act", input |-> fragment, context |-> << >>]
    /\ outcome' = ActResult(replacement, fragment)
    /\ pc' = "acted"
    /\ UNCHANGED << input, i, state, variables, result, replacement, raw, action, scopeVars, view >>

ActWithContext(fragment, cgs) ==
    /\ pc = "constructed"
    /\ action = "Replacement"
    /\ call' = [op |-> "act_with_context", input |-> fragment, context |-> cgs]
    /\ outcome' = ActWithContextResult(replacement, fragment, cgs)
    /\ pc' = "acted"
    /\ UNCHANGED << input, i, state, variables, result, replacement, raw, action, scopeVars, view >>

(***************************************************************************)
(* trait Action, and its implementation for every function                 *)
(* `Fn(&str) -> String`.  The closures are those of the stages:            *)
(* `|s| s.replace('ß', "ẞ").to_uppercase()` and `input.to_lowercase()`.    *)
(***************************************************************************)
\* a character without case: the CJK character U+4F60
Cjk == "U+4F60"

CaseAlphabet == { "a", "A", "ß", "ẞ", "!", "_", Cjk }

CaseFragments == Strings(CaseAlphabet, MaxFragment)

\* char::to_uppercase, for the characters of CaseAlphabet
ToUppercase(c) ==
    CASE c = "a" -> << "A" >>
      [] c = "ß" -> << "S", "S" >>
      [] c \in { "A", "ẞ", "!", "_", Cjk } -> << c >>

\* char::to_lowercase, for the characters of CaseAlphabet
ToLowercase(c) ==
    CASE c = "A" -> << "a" >>
      [] c = "ẞ" -> << "ß" >>
      [] c \in { "a", "ß", "!", "_", Cjk } -> << c >>

\* `s.replace('ß', "ẞ")`
ReplaceEszett(s) == [k \in 1 .. Len(s) |-> IF s[k] = "ß" THEN "ẞ" ELSE s[k]]

RECURSIVE ToUppercaseStr(_)
ToUppercaseStr(s) ==
    IF s = << >> THEN << >> ELSE ToUppercase(Head(s)) \o ToUppercaseStr(Tail(s))

RECURSIVE ToLowercaseStr(_)
ToLowercaseStr(s) ==
    IF s = << >> THEN << >> ELSE ToLowercase(Head(s)) \o ToLowercaseStr(Tail(s))

\* an upper-casing without the replacement of 'ß'
UpperWithoutReplace(s) == ToUppercaseStr(s)

\* `|s| s.replace('ß', "ẞ").to_uppercase()`
Upper(s) == ToUppercaseStr(ReplaceEszett(s))

\* `input.to_lowercase()`
Lower(s) == ToLowercaseStr(s)

Closures == { "Upper", "Lower" }

\* a closure that acts by appending to its input
ClosureActAppending(f, fragment) == Append(fragment, "!")

\* `self(input)`
ClosureAct(f, fragment) == IF f = "Upper" THEN Upper(fragment) ELSE Lower(fragment)

\* a context-aware operation that puts the text bound to the first group in front
ActWithContextBinding(f, fragment, cgs) ==
    IF DOMAIN cgs = { } THEN ClosureAct(f, fragment)
    ELSE cgs[CHOOSE g \in DOMAIN cgs : TRUE] \o ClosureAct(f, fragment)

\* Action::act_with_context, the provided method: `let _ = context; self.act(input)`
DefaultActWithContext(f, fragment, cgs) == ClosureAct(f, fragment)

\* `impl Action for Box<dyn Action>`: act is `self.as_ref().act(input)`, and
\* act_with_context is the provided method of the trait, `self.act(input)`
BoxedActWithContext(a, self, fragment, cgs) ==
    IF a = "Replacement" THEN ActResult(self, fragment) ELSE Returned(ClosureAct(a, fragment))

\* a closure or a Replacement, about to be called as an Action
InitAction ==
    /\ action \in Closures \cup { "Replacement" }
    /\ raw = << >>
    /\ input = << >>
    /\ i = 0
    /\ state = Noop
    /\ variables = << >>
    /\ pc = "constructed"
    /\ result = NoResult
    /\ replacement = IF action = "Replacement" THEN Underscore ELSE NoReplacement
    /\ call = NoCall
    /\ outcome = NoOutcome
    /\ NoScoping
    /\ view = NoView

ClosureActCall(fragment) ==
    /\ pc = "constructed"
    /\ action \in Closures
    /\ call' = [op |-> "act", input |-> fragment, context |-> << >>]
    /\ outcome' = Returned(ClosureAct(action, fragment))
    /\ pc' = "acted"
    /\ UNCHANGED << raw, input, i, state, variables, result, replacement, action, scopeVars, view >>

ClosureActWithContextCall(fragment, cgs) ==
    /\ pc = "constructed"
    /\ action \in Closures
    /\ call' = [op |-> "act_with_context", input |-> fragment, context |-> cgs]
    /\ outcome' = Returned(DefaultActWithContext(action, fragment, cgs))
    /\ pc' = "acted"
    /\ UNCHANGED << raw, input, i, state, variables, result, replacement, action, scopeVars, view >>

\* `Box<dyn Action>::act_with_context(&boxed, input, context)`
BoxedActWithContextCall(fragment, cgs) ==
    /\ pc = "constructed"
    /\ call' = [op |-> "boxed act_with_context", input |-> fragment, context |-> cgs]
    /\ outcome' = BoxedActWithContext(action, replacement, fragment, cgs)
    /\ pc' = "acted"
    /\ UNCHANGED << raw, input, i, state, variables, result, replacement, action, scopeVars, view >>

\* `action.act(&output)`: the action is applied to what it returned
ActAgain ==
    /\ pc = "acted"
    /\ call.op = "act"
    /\ outcome.kind = "Returned"
    /\ call' = [op |-> "act", input |-> outcome.text, context |-> << >>]
    /\ outcome' = IF action = "Replacement" THEN ActResult(replacement, outcome.text)
                  ELSE Returned(ClosureAct(action, outcome.text))
    /\ pc' = "acted twice"
    /\ UNCHANGED << raw, input, i, state, variables, result, replacement, action, scopeVars, view >>

(***************************************************************************)
(* Language scopers: scoping/langs.  A query text is known by the names of *)
(* its captures and by the grammars it compiles against; a capture name is *)
(* the sequence of the pieces it is spelled with, so that `starts_with`    *)
(* can tell a name that begins with the ignore tag from one that holds it  *)
(* elsewhere.  tree-sitter is outside the sources: `TSQuery::new` is a     *)
(* function of the grammar and the text, and `Parser::parse` returns an    *)
(* `Option<Tree>`, of which the scoper sees the nodes each capture hits.   *)
(***************************************************************************)
Languages == { "CSharp", "Rust", "TypeScript" }

IGNORE == "_SRGN_IGNORE"

CaptureNames == { << "string" >>, << IGNORE >>, << IGNORE, "1" >>, << "x", IGNORE >> }

\* a test for the tag anywhere in the name
IsIgnoredAnywhere(name) == \E k \in 1 .. Len(name) : name[k] = IGNORE

\* `name.starts_with(IGNORE)`
IsIgnored(name) == name # << >> /\ name[1] = IGNORE

\* the texts a custom query is parsed from
QuerySources ==
    { [captures |-> c, grammars |-> g] :
        c \in { n \in SUBSET CaptureNames : Cardinality(n) <= MaxCaptures },
        g \in SUBSET Languages }

\* the prepared queries, which compile against the grammar of their language
PreparedQueries ==
    { [lang |-> "CSharp", source |-> [captures |-> { << "comment" >> }, grammars |-> { "CSharp" }]],
      [lang |-> "CSharp", source |-> [captures |-> { << "import" >> }, grammars |-> { "CSharp" }]],
      [lang |-> "CSharp",
       source |-> [captures |-> { << IGNORE >>, << "string" >> }, grammars |-> { "CSharp" }]],
      [lang |-> "Rust",
       source |-> [captures |-> { << "line" >>, << "comment" >> }, grammars |-> { "Rust" }]],
      [lang |-> "Rust", source |-> [captures |-> { << "line" >> }, grammars |-> { "Rust" }]],
      [lang |-> "Rust", source |-> [captures |-> { << "use" >> }, grammars |-> { "Rust" }]],
      [lang |-> "Rust", source |-> [captures |-> { << "string" >> }, grammars |-> { "Rust" }]],
      [lang |-> "TypeScript",
       source |-> [captures |-> { << "comment" >> }, grammars |-> { "TypeScript" }]],
      [lang |-> "TypeScript", source |-> [captures |-> { << "sf" >> }, grammars |-> { "TypeScript" }]],
      [lang |-> "TypeScript",
       source |-> [captures |-> { << "string" >> }, grammars |-> { "TypeScript" }]] }

\* a panic of `Option::expect` / `Result::expect`
ExpectFailed(message) == [kind |-> "Panic", ranges |-> << >>, message |-> message]

\* `TSQuery::new(&lang, s)`: Ok(query) or Err(QueryError)
TSQueryNew(lang, source) ==
    IF lang \in source.grammars
    THEN [kind |-> "Query", captures |-> source.captures, disabled |-> { }]
    ELSE [kind |-> "QueryError", captures |-> { }, disabled |-> { }]

\* a from_str that keeps the string without compiling it
FromStrUnchecked(lang, source) == [kind |-> "Custom", lang |-> lang, source |-> source]

\* `impl FromStr for Custom..Query`: from_str
FromStr(lang, source) ==
    IF TSQueryNew(lang, source).kind = "Query"
    THEN [kind |-> "Custom", lang |-> lang, source |-> source]
    ELSE [kind |-> "QueryError", lang |-> lang, source |-> source]

\* `impl From<Custom..Query> for TSQuery` and `impl From<Prepared..Query> for TSQuery`:
\* `TSQuery::new(&lang, &value.0).expect(..)`; a query, or nothing where expect panics
IntoTSQuery(value) == TSQueryNew(value.lang, value.source)

\* `negate`
Negate(q) ==
    IF \E name \in q.captures : IsIgnored(name)
    THEN [q EXCEPT !.disabled = { name \in q.captures : ~IsIgnored(name) }]
    ELSE NoTSQuery

\* `Self { q: q.clone().into(), nq: negate(q) }`
New(value) ==
    [kind |-> "Scoper", lang |-> value.lang, q |-> IntoTSQuery(value),
     nq |-> Negate(IntoTSQuery(value))]

\* the byte ranges of the nodes of a tree over an input of MaxPos bytes
Nodes == { r \in [start : 0 .. MaxPos, end : 0 .. MaxPos] : r.start < r.end }

\* what `parse` can return to a scoper: no tree, or a tree, whole or with error
\* nodes, in which each capture of the query hits some nodes
ParseResults(self) ==
    { NoTree } \cup
    { [kind |-> "Tree", matches |-> m, has_error |-> e] :
        m \in [self.q.captures -> { n \in SUBSET Nodes : Cardinality(n) <= MaxNodes }],
        e \in BOOLEAN }

(***************************************************************************)
(* Ranges (crate::ranges): merge and subtraction, as the specification of  *)
(* the range algebra describes them.  A normalized set of ranges is the    *)
(* sequence of its ranges in ascending order.                              *)
(***************************************************************************)
\* "sort by start"
RECURSIVE SortedByStart(_)
SortedByStart(ranges) ==
    IF ranges = { } THEN << >>
    ELSE LET first == CHOOSE r \in ranges :
                          \A o \in ranges :
                              r.start < o.start \/ (r.start = o.start /\ r.end <= o.end)
         IN  << first >> \o SortedByStart(ranges \ { first })

\* "sweep left-to-right, coalescing any two intervals that overlap or touch
\* (next.start <= current.end) into one"
RECURSIVE Coalesce(_, _)
Coalesce(done, rest) ==
    IF rest = << >> THEN done
    ELSE LET next == Head(rest)
             current == done[Len(done)]
         IN  IF done # << >> /\ next.start <= current.end
             THEN Coalesce([done EXCEPT ![Len(done)] =
                                Range(current.start,
                                      IF next.end > current.end THEN next.end ELSE current.end)],
                           Tail(rest))
             ELSE Coalesce(Append(done, next), Tail(rest))

Merge(ranges) == Coalesce(<< >>, SortedByStart(ranges))

\* "the portions of [an] a-interval not covered by any b-interval"
RECURSIVE Uncovered(_, _)
Uncovered(r, b) ==
    IF b = << >> THEN << r >>
    ELSE IF Head(b).end <= r.start THEN Uncovered(r, Tail(b))
    ELSE IF Head(b).start >= r.end THEN << r >>
    ELSE (IF Head(b).start > r.start THEN << Range(r.start, Head(b).start) >> ELSE << >>)
         \o (IF Head(b).end < r.end THEN Uncovered(Range(Head(b).end, r.end), Tail(b))
             ELSE << >>)

\* "set difference of normalized a minus normalized b"
RECURSIVE Subtract(_, _)
Subtract(a, b) ==
    IF a = << >> THEN << >> ELSE Uncovered(Head(a), b) \o Subtract(Tail(a), b)

(***************************************************************************)
(* LanguageScoper::scope_via_query.                                        *)
(***************************************************************************)
\* a run that returns the byte ranges in order of their start, without merging them
RunUnmerged(q, parsed) ==
    SortedByStart(UNION { parsed.matches[name] : name \in q.captures \ q.disabled })

\* the closure `run`: the byte ranges of the nodes of every capture of every match
\* (a disabled capture is not returned in matches), merged
Run(q, parsed) ==
    Merge(UNION { parsed.matches[name] : name \in q.captures \ q.disabled })

InRanges(ranges) == [kind |-> "Ranges", ranges |-> ranges, message |-> ""]

\* a scoping that leaves the negative query aside
ScopeViaPositiveQuery(self, parsed) ==
    IF parsed = NoTree
    THEN ExpectFailed("No language set in parser, or other unrecoverable error")
    ELSE InRanges(Run(self.q, parsed))

\* a scoping that returns no ranges where the parser returned no tree
ScopeViaQueryOrNothing(self, parsed) ==
    IF parsed = NoTree THEN InRanges(<< >>)
    ELSE IF self.nq.kind = "Query"
    THEN InRanges(Subtract(Run(self.q, parsed), Run(self.nq, parsed)))
    ELSE InRanges(Run(self.q, parsed))

\* what scope_via_query returns, given what `parse(input, old_tree)` returned
ScopeViaQueryResult(self, parsed) ==
    IF parsed = NoTree
    THEN ExpectFailed("No language set in parser, or other unrecoverable error")
    ELSE IF self.nq.kind = "Query"
    THEN InRanges(Subtract(Run(self.q, parsed), Run(self.nq, parsed)))
    ELSE InRanges(Run(self.q, parsed))

\* nothing has been parsed into a query yet
InitScope ==
    /\ raw = << >>
    /\ input = << >>
    /\ i = 0
    /\ state = Noop
    /\ variables = << >>
    /\ pc = "query"
    /\ result = NoResult
    /\ replacement = NoReplacement
    /\ call = NoCall
    /\ outcome = NoOutcome
    /\ action = "None"
    /\ NoScoping
    /\ view = NoView

\* `s.parse::<Custom..Query>()`
CustomFromStr(lang, source) ==
    /\ pc = "query"
    /\ query' = FromStr(lang, source)
    /\ pc' = IF FromStr(lang, source).kind = "Custom" THEN "custom" ELSE "rejected"
    /\ UNCHANGED << actionVars, view, scoper, tree, scoped >>

\* `CSharp::new(custom)`, `Rust::new(custom)`, `TypeScript::new(custom)`
NewFromCustom ==
    /\ pc = "custom"
    /\ IF IntoTSQuery(query).kind = "Query"
       THEN /\ scoper' = New(query)
            /\ pc' = "ready"
            /\ UNCHANGED scoped
       ELSE /\ scoped' = ExpectFailed("Valid query, as object cannot be constructed otherwise")
            /\ pc' = "panicked"
            /\ UNCHANGED scoper
    /\ UNCHANGED << actionVars, view, query, tree >>

\* `CSharp::new(prepared)`, `Rust::new(prepared)`, `TypeScript::new(prepared)`
NewFromPrepared(prepared) ==
    /\ pc = "query"
    /\ scoper' = New(prepared)
    /\ pc' = "ready"
    /\ UNCHANGED << actionVars, view, query, tree, scoped >>

\* `scoper.scope_via_query(input)`, for whatever `parse` returns on the input
ScopeViaQuery ==
    /\ pc = "ready"
    /\ \E parsed \in ParseResults(scoper) :
           /\ tree' = parsed
           /\ scoped' = ScopeViaQueryResult(scoper, parsed)
           /\ pc' = IF ScopeViaQueryResult(scoper, parsed).kind = "Ranges"
                    THEN "scoped" ELSE "panicked"
    /\ UNCHANGED << actionVars, view, query, scoper >>

(***************************************************************************)
(* The scoped view (crate::scoping::view) and the application of actions   *)
(* to it, as the specification describes them: the view is the ordered,    *)
(* gap-free list of the fragments of the input between the boundaries of   *)
(* the ranges it is built from; an action is applied to every in-scope     *)
(* fragment, with the fragment's context where it has one.                 *)
(***************************************************************************)
ViewAlphabet == { "a", "A", "!" }

NoContext == [some |-> FALSE, cgs |-> << >>]

\* a source that attaches no bindings, or one that binds every group
ViewContexts ==
    { NoContext } \cup { [some |-> TRUE, cgs |-> cgs] : cgs \in [ContextGroups -> BoundTexts] }

\* the ranges a scope source can return for a text: the runs of any of its bytes
ScopeRanges(text) ==
    { Merge({ Range(p, p + 1) : p \in covered }) : covered \in SUBSET (0 .. Len(text) - 1) }

\* "the set of boundaries always includes 0 and len(input)"
Boundaries(text, ranges) ==
    { 0, Len(text) } \cup { ranges[k].start : k \in 1 .. Len(ranges) }
                     \cup { ranges[k].end : k \in 1 .. Len(ranges) }

RECURSIVE Ordered(_)
Ordered(offsets) ==
    IF offsets = { } THEN << >>
    ELSE LET least == CHOOSE o \in offsets : \A other \in offsets : o <= other
         IN  << least >> \o Ordered(offsets \ { least })

\* "finalization (build) computes the ordered, gap-free fragment list from the
\* union of all recorded boundaries"
Build(text, ranges, context) ==
    LET cut == Ordered(Boundaries(text, ranges))
        InScope(from, to) ==
            \E k \in 1 .. Len(ranges) : ranges[k].start <= from /\ to <= ranges[k].end
    IN  [j \in 1 .. Len(cut) - 1 |->
            IF InScope(cut[j], cut[j + 1])
            THEN [status |-> "InScope", content |-> SubSeq(text, cut[j] + 1, cut[j + 1]),
                  context |-> context]
            ELSE [status |-> "OutOfScope", content |-> SubSeq(text, cut[j] + 1, cut[j + 1]),
                  context |-> NoContext]]

\* what an action makes of one in-scope fragment
Submit(a, self, fragment) ==
    IF fragment.context.some
    THEN IF a = "Replacement"
         THEN ActWithContextResult(self, fragment.content, fragment.context.cgs)
         ELSE Returned(DefaultActWithContext(a, fragment.content, fragment.context.cgs))
    ELSE IF a = "Replacement"
         THEN ActResult(self, fragment.content)
         ELSE Returned(ClosureAct(a, fragment.content))

\* an application that hands every fragment to the action, in scope or not
MapEveryFragment(a, self, fragments) ==
    [j \in 1 .. Len(fragments) |->
        [fragments[j] EXCEPT !.content = Submit(a, self, fragments[j]).text]]

\* "for every InScope fragment, replacing its content with the transformation's
\* output given the old content (and context, if accepted); OutOfScope fragments
\* are never touched"
Map(a, self, fragments) ==
    [j \in 1 .. Len(fragments) |->
        IF fragments[j].status = "InScope"
        THEN [fragments[j] EXCEPT !.content = Submit(a, self, fragments[j]).text]
        ELSE fragments[j]]

\* an input, and the Replacement that is constructed once for the whole run
InitView ==
    /\ raw = << >>
    /\ input = << >>
    /\ i = 0
    /\ state = Noop
    /\ variables = << >>
    /\ pc = "input"
    /\ result = NoResult
    /\ replacement = Underscore
    /\ call = NoCall
    /\ outcome = NoOutcome
    /\ action = "None"
    /\ NoScoping
    /\ view = NoView

\* the builder: `ScopedViewBuilder::new(input)`, `explode(&scoper)`, `build()`
ViewBuild ==
    /\ pc = "input"
    /\ \E text \in Strings(ViewAlphabet, MaxView), context \in ViewContexts :
           \E ranges \in ScopeRanges(text) :
               /\ input' = text
               /\ scoped' = InRanges(ranges)
               /\ view' = [kind |-> "View", fragments |-> Build(text, ranges, context),
                           applied |-> << >>]
    /\ pc' = "built"
    /\ UNCHANGED << raw, i, state, variables, result, replacement, call, outcome, action,
                    query, scoper, tree >>

\* one action of the list is applied to the view
ViewApply(a) ==
    /\ pc \in { "built", "applied" }
    /\ Len(view.applied) < MaxActions
    /\ action' = a
    /\ IF \E j \in 1 .. Len(view.fragments) :
              /\ view.fragments[j].status = "InScope"
              /\ Submit(a, replacement, view.fragments[j]).kind = "Panic"
       THEN /\ outcome' = Panicked
            /\ pc' = "panicked"
            /\ UNCHANGED view
       ELSE /\ view' = [view EXCEPT !.fragments = Map(a, replacement, view.fragments),
                                    !.applied = Append(view.applied, a)]
            /\ pc' = "applied"
            /\ UNCHANGED outcome
    /\ UNCHANGED << raw, input, i, state, variables, result, replacement, call,
                    scopeVars >>

Next ==
    \/ ArmDollar
    \/ ArmNoop
    \/ ArmFirstBrace
    \/ ArmNextBrace
    \/ ArmStartNamed
    \/ ArmStartNamedBraced
    \/ ArmStartNumbered
    \/ ArmStartNumberedBraced
    \/ ArmFallBack
    \/ ArmBuildNamed
    \/ ArmBuildNumbered
    \/ ArmStopNamed
    \/ ArmWindDownNamed
    \/ ArmStopNumbered
    \/ ArmWindDownNumbered
    \/ Flush
    \/ TryFrom
    \/ \E fragment \in Fragments : Act(fragment)
    \/ \E fragment \in Fragments, cgs \in Contexts : ActWithContext(fragment, cgs)

Spec == Init /\ [][Next]_vars

\* the arms and the flush that a template of NumberedTemplates goes through
NextNumbered ==
    \/ ArmDollar
    \/ ArmStartNumbered
    \/ ArmBuildNumbered
    \/ Flush

SpecNumbered == InitNumbered /\ [][NextNumbered]_vars

\* Replacement::try_from as a whole
NextCreate ==
    \/ TryFromUnescape
    \/ ArmDollar
    \/ ArmNoop
    \/ ArmFirstBrace
    \/ ArmNextBrace
    \/ ArmStartNamed
    \/ ArmStartNamedBraced
    \/ ArmStartNumbered
    \/ ArmStartNumberedBraced
    \/ ArmFallBack
    \/ ArmBuildNamed
    \/ ArmBuildNumbered
    \/ ArmStopNamed
    \/ ArmWindDownNamed
    \/ ArmStopNumbered
    \/ ArmWindDownNumbered
    \/ Flush
    \/ TryFrom
    \/ \E fragment \in Fragments : Act(fragment)

SpecCreate == InitCreate /\ [][NextCreate]_vars

\* the calls of a closure as an Action
NextAction ==
    \/ \E fragment \in CaseFragments : ClosureActCall(fragment)
    \/ \E fragment \in CaseFragments, cgs \in Contexts : ClosureActWithContextCall(fragment, cgs)
    \/ \E fragment \in Fragments : Act(fragment)
    \/ \E fragment \in Fragments, cgs \in Contexts : ActWithContext(fragment, cgs)
    \/ \E fragment \in CaseFragments, cgs \in Contexts : BoxedActWithContextCall(fragment, cgs)
    \/ ActAgain

SpecAction == InitAction /\ [][NextAction]_vars

\* a language scoper, from its query to the ranges of one input
NextScope ==
    \/ \E lang \in Languages, source \in QuerySources : CustomFromStr(lang, source)
    \/ NewFromCustom
    \/ \E prepared \in PreparedQueries : NewFromPrepared(prepared)
    \/ ScopeViaQuery

SpecScope == InitScope /\ [][NextScope]_vars

\* a view is built and a list of actions is applied to it
NextView ==
    \/ ViewBuild
    \/ \E a \in Closures \cup { "Replacement" } : ViewApply(a)

SpecView == InitView /\ [][NextView]_vars

(***************************************************************************)
(* Vocabulary of the properties.                                           *)
(***************************************************************************)
\* the byte offset of the character whose index is k (k = Len(s): the end)
RECURSIVE ByteOffset(_, _)
ByteOffset(s, k) == IF k = 0 THEN 0 ELSE ByteOffset(s, k - 1) + LenUtf8(s[k])

\* the length of the run of `$` that ends with the k-th character of s
RECURSIVE DollarRun(_, _)
DollarRun(s, k) ==
    IF k = 0 \/ s[k] # Dollar THEN 0 ELSE 1 + DollarRun(s, k - 1)

\* the character of index p is the last `$` of a run of odd length
EndsOddRun(s, p) ==
    /\ p >= 0
    /\ p < Len(s)
    /\ DollarRun(s, p + 1) % 2 = 1
    /\ (p + 1 < Len(s) => s[p + 2] # Dollar)

\* the number of maximal runs of `$` of odd length
OddRuns(s) == Cardinality({ p \in 0 .. Len(s) - 1 : EndsOddRun(s, p) })

\* the number of ranges a map holds
RECURSIVE TotalRanges(_)
TotalRanges(map) ==
    IF DOMAIN map = { } THEN 0
    ELSE LET g == CHOOSE h \in DOMAIN map : TRUE
         IN  Len(map[g]) + TotalRanges([h \in DOMAIN map \ {g} |-> map[h]])

\* the map holds the range start..end under the group
HasRange(map, group, start, end) ==
    /\ group \in DOMAIN map
    /\ \E k \in 1 .. Len(map[group]) : map[group][k] = Range(start, end)

VariableInProgress ==
    state.tag \in { "BuildingNamedVariable", "BuildingNumberedVariable",
                    "WindDownNamedVariable", "WindDownNumberedVariable" }

ReturnedOk == pc = "returned" /\ result.kind = "Ok"

ReturnedErr == pc = "returned" /\ result.kind = "MismatchedBraces"

ActedWithContext == pc = "acted" /\ call.op = "act_with_context"

\* the capture groups the template refers to are all bound by the context
AllBound == DOMAIN replacement.variables \subseteq DOMAIN call.context

\* the UTF-8 bytes of a string, the two bytes of NonAscii being "C3" and "A9"
RECURSIVE Utf8(_)
Utf8(s) ==
    IF s = << >> THEN << >>
    ELSE (IF Head(s) = NonAscii THEN << "C3", "A9" >> ELSE << Head(s) >>) \o Utf8(Tail(s))

\* the template's bytes from offset k on, each recorded range replaced by the bound text
RECURSIVE Substituted(_, _, _, _)
Substituted(bytes, map, cgs, k) ==
    IF k >= Len(bytes) THEN << >>
    ELSE LET here == { g \in DOMAIN map :
                         \E n \in 1 .. Len(map[g]) : map[g][n].start = k /\ map[g][n].end > k }
         IN  IF here = { } THEN << bytes[k + 1] >> \o Substituted(bytes, map, cgs, k + 1)
             ELSE LET g == CHOOSE h \in here : TRUE
                      r == CHOOSE r \in { map[g][n] : n \in 1 .. Len(map[g]) } : r.start = k
                  IN  Utf8(cgs[g]) \o Substituted(bytes, map, cgs, r.end)

(***************************************************************************)
(* C1: act_with_context on a Replacement whose groups are all bound by the *)
(* context returns the template with every recorded range replaced by the  *)
(* group's bound text and everything else copied.                          *)
(***************************************************************************)
C1_SubstitutesBoundGroups ==
    (ActedWithContext /\ AllBound /\ DOMAIN replacement.variables # { }) =>
        /\ outcome.kind = "Returned"
        /\ Utf8(outcome.text) =
               Substituted(Utf8(replacement.repl), replacement.variables, call.context, 0)

(***************************************************************************)
(* C2: act_with_context on a Replacement that refers to a group the        *)
(* context does not bind fails with a missing-capture-group error.         *)
(***************************************************************************)
C2_MissingGroupIsAnError ==
    (ActedWithContext /\ ~AllBound) => outcome.kind = "MissingCaptureGroup"

(***************************************************************************)
(* C3: dollar escaping.  After a run of k `$` the scan is in               *)
(* MaybeVariableStart if k is odd and in Noop if k is even, the character  *)
(* after an even run is literal, a variable in progress began at the last  *)
(* `$` of an odd run, and an accepted template holds at most one variable  *)
(* per odd run.                                                            *)
(***************************************************************************)
C3_DollarEscaping ==
    /\ pc = "scan" =>
          LET k == DollarRun(input, i)
          IN  /\ k % 2 = 1 => state = MaybeVariableStart
              /\ (k > 0 /\ k % 2 = 0) => state = Noop
              /\ (i > 0 /\ k = 0 /\ DollarRun(input, i - 1) > 0
                        /\ DollarRun(input, i - 1) % 2 = 0) => state = Noop
              /\ state.tag = "WindUpBraces" => EndsOddRun(input, i - state.n_braces - 1)
              /\ VariableInProgress => EndsOddRun(input, state.start)
    /\ ReturnedOk => TotalRanges(result.variables) <= OddRuns(input)

\* "$$$a": the third `$` of a run of three starts the variable
C3_Witness ==
    /\ ReturnedOk
    /\ Len(input) >= 4
    /\ DollarRun(input, 3) = 3
    /\ input[4] = "a"
    /\ TotalRanges(result.variables) = 1

(***************************************************************************)
(* Variable expressions as the template spells them, and the byte range    *)
(* each one occupies.                                                      *)
(***************************************************************************)
IsNameBody(b) ==
    /\ b # << >>
    /\ b[1] \in NameStartChars
    /\ \A k \in 1 .. Len(b) : b[k] \in NameStartChars \cup DigitChars

IsDigitBody(b) == b # << >> /\ \A k \in 1 .. Len(b) : b[k] \in DigitChars

\* the decimal value of a run of digits
RECURSIVE DecimalValue(_)
DecimalValue(b) ==
    IF b = << >> THEN 0
    ELSE DecimalValue(SubSeq(b, 1, Len(b) - 1)) * 10 + ToDigit(b[Len(b)])

GroupOf(b) == IF IsDigitBody(b) THEN Numbered(Usize(DecimalValue(b))) ELSE Named(b)

\* name or digits of the expression that starts at the `$` of index p with n braces
BodyAt(s, p, n, len) == SubSeq(s, p + n + 2, p + n + 1 + len)

\* the index just after the expression
EndAt(p, n, len) == p + 1 + 2 * n + len

\* `$`, n >= 1 opening braces, a name or a digit run, n closing braces
BracedAt(s, p, n, len) ==
    /\ n >= 1
    /\ len >= 1
    /\ EndAt(p, n, len) <= Len(s)
    /\ EndsOddRun(s, p)
    /\ \A k \in p + 2 .. p + 1 + n : s[k] = OpenBrace
    /\ IsNameBody(BodyAt(s, p, n, len)) \/ IsDigitBody(BodyAt(s, p, n, len))
    /\ \A k \in p + n + len + 2 .. p + 2 * n + len + 1 : s[k] = CloseBrace

\* `$` and the maximal run of name characters after it
UnbracedNamedAt(s, p, len) ==
    /\ len >= 1
    /\ EndAt(p, 0, len) <= Len(s)
    /\ EndsOddRun(s, p)
    /\ IsNameBody(BodyAt(s, p, 0, len))
    /\ EndAt(p, 0, len) < Len(s) => s[EndAt(p, 0, len) + 1] \notin NameStartChars \cup DigitChars

\* `$` and the maximal run of digits after it
UnbracedNumberedAt(s, p, len) ==
    /\ len >= 1
    /\ EndAt(p, 0, len) <= Len(s)
    /\ EndsOddRun(s, p)
    /\ IsDigitBody(BodyAt(s, p, 0, len))
    /\ EndAt(p, 0, len) < Len(s) => s[EndAt(p, 0, len) + 1] \notin DigitChars

\* the bytes of the expression
ByteRangeAt(s, p, n, len) == Range(ByteOffset(s, p), ByteOffset(s, EndAt(p, n, len)))

\* the map holds the expression's byte range under the expression's group
Extracted(map, s, p, n, len) ==
    LET r == ByteRangeAt(s, p, n, len)
    IN  HasRange(map, GroupOf(BodyAt(s, p, n, len)), r.start, r.end)

\* some group of the given kinds holds a range that starts at the byte offset
StartsAt(map, kinds, offset) ==
    \E g \in DOMAIN map :
        /\ g.kind \in kinds
        /\ \E k \in 1 .. Len(map[g]) : map[g][k].start = offset

Positions == 0 .. MaxLen

(***************************************************************************)
(* C4: a braced expression `$`, n opening braces, a name or digits, n      *)
(* closing braces, is recorded with the range from the `$` to just after   *)
(* the n-th closing brace, for every depth n.                              *)
(***************************************************************************)
C4_BracedRange ==
    ReturnedOk =>
        \A p \in Positions, n \in 1 .. MaxLen, len \in 1 .. MaxLen :
            BracedAt(input, p, n, len) => Extracted(result.variables, input, p, n, len)

(***************************************************************************)
(* C5 as stated: the end of input at any brace depth above 0, the state    *)
(* WindUpBraces included, returns MismatchedBraces with the template.      *)
(***************************************************************************)
AtEndOfInput == pc = "returned" /\ i = Len(input)

BraceDepth ==
    IF state.tag = "WindUpBraces" \/ VariableInProgress THEN state.n_braces ELSE 0

C5_EndOfInputAtAnyDepth ==
    (AtEndOfInput /\ BraceDepth > 0) => result = MismatchedBraces(input)

(***************************************************************************)
(* C5 amended: the end of input while a variable is being built or wound   *)
(* down at a brace depth above 0 returns MismatchedBraces with the         *)
(* template and no map; the end of input in WindUpBraces returns Ok with   *)
(* the map as it is.                                                       *)
(***************************************************************************)
C5_EndOfInputInVariable ==
    AtEndOfInput =>
        /\ (VariableInProgress /\ state.n_braces > 0) => result = MismatchedBraces(input)
        /\ state.tag = "WindUpBraces" => result = Ok(variables)

\* "${{a}": the end of input in the middle of the wind-down
C5_Witness ==
    /\ AtEndOfInput
    /\ state.tag = "WindDownNamedVariable"
    /\ state.n_braces > 0
    /\ result = MismatchedBraces(input)

(***************************************************************************)
(* C6: while a variable is built or wound down at depth n > 0, a closing   *)
(* brace lowers the depth by one, a continuation of the name or digit run  *)
(* (while building) goes on building, and any other character ends the     *)
(* scan at that character with MismatchedBraces carrying the template.     *)
(***************************************************************************)
C6_Step ==
    (Scanning /\ VariableInProgress /\ state.n_braces > 0) =>
        IF Current = CloseBrace
        THEN /\ pc' = "scan"
             /\ i' = i + 1
             /\ state'.n_braces = state.n_braces - 1
             /\ state'.tag = IF IsNamedPending(state) THEN "WindDownNamedVariable"
                                                      ELSE "WindDownNumberedVariable"
             /\ state'.name = state.name
             /\ state'.magnitude = state.magnitude
             /\ state'.start = state.start
             /\ variables' = variables
        ELSE IF \/ state.tag = "BuildingNamedVariable" /\ IsNameContinue(Current)
                \/ state.tag = "BuildingNumberedVariable" /\ IsDigit(Current)
        THEN /\ pc' = "scan"
             /\ state'.tag = state.tag
             /\ state'.n_braces = state.n_braces
        ELSE /\ pc' = "returned"
             /\ i' = i
             /\ result' = MismatchedBraces(input)

C6_BracesWindDownOrFail == [][C6_Step]_vars

\* "${{a}a": a name character after the first closing brace
C6_Witness ==
    /\ ReturnedErr
    /\ i < Len(input)
    /\ state.tag = "WindDownNamedVariable"
    /\ state.n_braces > 0
    /\ IsNameContinue(input[i + 1])
    /\ result = MismatchedBraces(input)

(***************************************************************************)
(* C7: closing braces beyond the opening ones are literal and never an     *)
(* error: the scan never fails at a closing brace, and a variable that is  *)
(* followed by an excess closing brace has the range that ends just after  *)
(* the brace that closes it (before the brace, for an unbraced variable).  *)
(***************************************************************************)
C7_ExcessClosingBraces ==
    /\ (ReturnedErr /\ i < Len(input)) => input[i + 1] # CloseBrace
    /\ ReturnedOk =>
          \A p \in Positions, n \in 0 .. MaxLen, len \in 1 .. MaxLen :
              (/\ \/ BracedAt(input, p, n, len)
                  \/ n = 0 /\ UnbracedNamedAt(input, p, len)
                  \/ n = 0 /\ UnbracedNumberedAt(input, p, len)
               /\ EndAt(p, n, len) < Len(input)
               /\ input[EndAt(p, n, len) + 1] = CloseBrace)
              => Extracted(result.variables, input, p, n, len)

(***************************************************************************)
(* C8: an unbraced numbered variable is `$` and the maximal run of digits  *)
(* after it, recorded as Numbered and never as Named; a `$` followed by    *)
(* any other character that starts neither braces nor a name yields no     *)
(* variable.                                                               *)
(***************************************************************************)
C8_UnbracedNumbered ==
    ReturnedOk =>
        \A p \in Positions :
            /\ \A len \in 1 .. MaxLen :
                  UnbracedNumberedAt(input, p, len) =>
                      /\ Extracted(result.variables, input, p, 0, len)
                      /\ ~StartsAt(result.variables, { "Named" }, ByteOffset(input, p))
            /\ (/\ EndsOddRun(input, p)
                /\ p + 1 < Len(input)
                /\ input[p + 2] \notin NameStartChars \cup DigitChars \cup { OpenBrace })
               => ~StartsAt(result.variables, { "Named", "Numbered" }, ByteOffset(input, p))

(***************************************************************************)
(* C9: an unbraced named variable is `$`, a letter or underscore, and the  *)
(* maximal run of letters, digits and underscores after it; the character  *)
(* that ends it is outside the range; a `$` before a non-ASCII character   *)
(* or at the end of input yields no variable and no error.                 *)
(***************************************************************************)
C9_UnbracedNamed ==
    /\ ReturnedOk =>
          \A p \in Positions :
              /\ \A len \in 1 .. MaxLen :
                    UnbracedNamedAt(input, p, len) =>
                        Extracted(result.variables, input, p, 0, len)
              /\ (/\ EndsOddRun(input, p)
                  /\ p + 1 < Len(input) => input[p + 2] = NonAscii)
                 => ~StartsAt(result.variables, { "Named", "Numbered" }, ByteOffset(input, p))
    /\ (ReturnedErr /\ i < Len(input)) =>
          ~(i > 0 /\ state.tag = "MaybeVariableStart" /\ input[i + 1] = NonAscii)

(***************************************************************************)
(* C10: every occurrence is recorded.  A step that ends a variable         *)
(* appends exactly one range to the list of that variable's group and      *)
(* leaves every range recorded before in place; no other step changes the  *)
(* map; the list of every group is ascending and free of overlap.          *)
(***************************************************************************)
IsPrefix(a, b) == Len(a) <= Len(b) /\ SubSeq(b, 1, Len(a)) = a

Ascending(map) ==
    \A g \in DOMAIN map :
        /\ Len(map[g]) >= 1
        /\ \A k \in 1 .. Len(map[g]) : map[g][k].start < map[g][k].end
        /\ \A k \in 1 .. Len(map[g]) - 1 : map[g][k].end <= map[g][k + 1].start

\* the iteration, or the flush, that comes next ends the variable in progress
EndsVariable ==
    /\ pc = "scan"
    /\ VariableInProgress
    /\ state.n_braces = 0
    /\ i < Len(input) =>
          ~ \/ state.tag = "BuildingNamedVariable" /\ IsNameContinue(Current)
            \/ state.tag = "BuildingNumberedVariable" /\ IsDigit(Current)

GroupInProgress ==
    IF IsNamedPending(state) THEN Named(state.name) ELSE Numbered(state.magnitude)

C10_Step ==
    (pc = "scan" /\ (pc' = "scan" \/ result'.kind = "Ok")) =>
        LET after == IF pc' = "scan" THEN variables' ELSE result'.variables
        IN  /\ Ascending(after)
            /\ \A g \in DOMAIN variables : g \in DOMAIN after /\ IsPrefix(variables[g], after[g])
            /\ IF EndsVariable
               THEN /\ TotalRanges(after) = TotalRanges(variables) + 1
                    /\ GroupInProgress \in DOMAIN after
                    /\ Len(after[GroupInProgress]) =
                           IF GroupInProgress \in DOMAIN variables
                           THEN Len(variables[GroupInProgress]) + 1 ELSE 1
               ELSE after = variables

C10_EveryOccurrenceRecorded == [][C10_Step]_vars

\* "$a$1$a": one group with two ranges, interleaved with another group
C10_Witness ==
    /\ ReturnedOk
    /\ Cardinality(DOMAIN result.variables) >= 2
    /\ \E g \in DOMAIN result.variables : Len(result.variables[g]) >= 2

(***************************************************************************)
(* C11: back-to-back variables.  The iteration that ends a variable at     *)
(* brace depth 0 records a range that ends at the terminator and goes to   *)
(* MaybeVariableStart if the terminator is `$`, to Noop for every other    *)
(* terminator; a variable in progress starts at its `$`; so that of two    *)
(* expressions with no separator between them both are recorded, the range *)
(* of the second starting where the range of the first ends.               *)
(***************************************************************************)
\* a variable expression of len name characters or digits at the `$` of index p
VariableAt(s, p, n, len) ==
    IF n = 0 THEN UnbracedNamedAt(s, p, len) \/ UnbracedNumberedAt(s, p, len)
    ELSE BracedAt(s, p, n, len)

\* the two groups hold ranges that touch: one ends where the other starts
Adjacent(map, first, second) ==
    /\ first \in DOMAIN map
    /\ second \in DOMAIN map
    /\ \E j \in 1 .. Len(map[first]), k \in 1 .. Len(map[second]) :
          /\ map[first][j].end = map[second][k].start
          /\ first = second => k = j + 1

\* expressions at p and directly after it, with no character in between
BackToBack(s, p, n, len, m, len2) ==
    /\ EndAt(p, n, len) < Len(s)
    /\ s[EndAt(p, n, len) + 1] = Dollar
    /\ VariableAt(s, p, n, len)
    /\ VariableAt(s, EndAt(p, n, len), m, len2)

C11_Step ==
    /\ (EndsVariable /\ i < Len(input)) =>
          /\ pc' = "scan"
          /\ state' = IF Current = Dollar THEN MaybeVariableStart ELSE Noop
          /\ variables'[GroupInProgress][Len(variables'[GroupInProgress])].end = i
    /\ (pc' = "scan" /\ state'.tag \in { "BuildingNamedVariable", "BuildingNumberedVariable" }) =>
          input[state'.start + 1] = Dollar
    /\ (pc' = "returned" /\ result'.kind = "Ok") =>
          \A p \in Positions, n \in 0 .. MaxLen, len \in 1 .. MaxLen :
              VariableAt(input, p, n, len) =>
                  \A m \in 0 .. MaxLen, len2 \in 1 .. MaxLen :
                      BackToBack(input, p, n, len, m, len2) =>
                          Adjacent(result'.variables, GroupOf(BodyAt(input, p, n, len)),
                                   GroupOf(BodyAt(input, EndAt(p, n, len), m, len2)))

C11_BackToBackVariables == [][C11_Step]_vars

\* "é$a$1" and the like: two expressions with no separator, after a two-byte character
C11_Witness ==
    /\ ReturnedOk
    /\ Len(input) >= 5
    /\ input[1] = NonAscii
    /\ \E len \in 1 .. MaxLen, m \in 0 .. 1, len2 \in 1 .. MaxLen :
          BackToBack(input, 1, 0, len, m, len2)
    /\ TotalRanges(result.variables) = 2

(***************************************************************************)
(* C12: every recorded range is a byte range of the template.  The bytes   *)
(* of the template from start to end spell a variable expression of the    *)
(* range's group (`$`, n opening braces, the name or digits, n closing     *)
(* braces), and start and end are offsets of characters of the template.   *)
(***************************************************************************)
\* the text of the expression of depth n with the given name or digits
RECURSIVE Braces(_, _)
Braces(c, n) == IF n = 0 THEN << >> ELSE << c >> \o Braces(c, n - 1)

ExpressionText(n, b) == << Dollar >> \o Braces(OpenBrace, n) \o b \o Braces(CloseBrace, n)

\* the bytes spell an expression whose group is g
SpellsExpressionOf(bytes, g) ==
    \E n \in 0 .. MaxLen :
        LET b == SubSeq(bytes, n + 2, Len(bytes) - n)
        IN  /\ Len(bytes) >= 2 * n + 2
            /\ IsNameBody(b) \/ IsDigitBody(b)
            /\ bytes = ExpressionText(n, b)
            /\ GroupOf(b) = g

OnCharBoundary(s, offset) == \E k \in 0 .. Len(s) : ByteOffset(s, k) = offset

C12_RangesAreByteRanges ==
    ReturnedOk =>
        \A g \in DOMAIN result.variables :
            \A k \in 1 .. Len(result.variables[g]) :
                LET r == result.variables[g][k]
                IN  /\ 0 <= r.start
                    /\ r.start <= r.end
                    /\ r.end <= ByteLen(input)
                    /\ OnCharBoundary(input, r.start)
                    /\ OnCharBoundary(input, r.end)
                    /\ SpellsExpressionOf(SubSeq(Utf8(input), r.start + 1, r.end), g)

(***************************************************************************)
(* C13: the fall-back.  In MaybeVariableStart and in WindUpBraces(n), an   *)
(* iteration whose character is not `{`, a letter, an underscore or a      *)
(* digit, a second `$` included, returns the scan to Noop and records      *)
(* nothing, so that the character does not start a variable itself.        *)
(***************************************************************************)
StartsNothing(c) == c # OpenBrace /\ ~IsNameStart(c) /\ ~IsDigit(c)

C13_Step ==
    (Scanning /\ state.tag \in { "MaybeVariableStart", "WindUpBraces" } /\ StartsNothing(Current)) =>
        /\ pc' = "scan"
        /\ state' = Noop
        /\ variables' = variables

C13_FallBackToNeutral == [][C13_Step]_vars

(***************************************************************************)
(* C14: the end of the template while a variable is in progress at brace   *)
(* depth 0 (built unbraced, or wound down to 0).  The result is Ok; the    *)
(* variable is recorded last under its group with a range that ends at the *)
(* length of the template; the ranges recorded before are all kept.        *)
(***************************************************************************)
C14_EndOfInputAtDepthZero ==
    (AtEndOfInput /\ VariableInProgress /\ state.n_braces = 0) =>
        /\ result.kind = "Ok"
        /\ GroupInProgress \in DOMAIN result.variables
        /\ LET ranges == result.variables[GroupInProgress]
           IN  /\ ranges[Len(ranges)].end = ByteLen(input)
               /\ ranges[Len(ranges)].start < ranges[Len(ranges)].end
        /\ TotalRanges(result.variables) = TotalRanges(variables) + 1
        /\ \A g \in DOMAIN variables :
              g \in DOMAIN result.variables /\ IsPrefix(variables[g], result.variables[g])

\* "$aé$a", "$1é$1" and the like: the second variable is ended by the end of a
\* template that holds a two-byte character
C14_Witness ==
    /\ AtEndOfInput
    /\ VariableInProgress
    /\ state.n_braces = 0
    /\ result.kind = "Ok"
    /\ TotalRanges(result.variables) = 2
    /\ \E k \in 1 .. Len(input) : input[k] = NonAscii

(***************************************************************************)
(* C15: the group of a numbered variable is Numbered(m), m the decimal     *)
(* value of the whole run of digits, whatever its length and whether or    *)
(* not the value fits the machine word; leading zeros do not change m.     *)
(* For a template that is `$` and a run of digits the extraction returns   *)
(* Ok with that one group, over the whole template.                        *)
(***************************************************************************)
\* the remainder of the limbs k and above, divided by 10
RECURSIVE Rem10(_, _)
Rem10(m, k) == IF k > UsizeLimbs THEN 0 ELSE (Rem10(m, k + 1) * LimbBase + m[k]) % 10

Div10(m) == [k \in 1 .. UsizeLimbs |-> (Rem10(m, k + 1) * LimbBase + m[k]) \div 10]

\* the decimal digits of a usize, most significant first, none for 0
RECURSIVE DecimalDigits(_)
DecimalDigits(m) ==
    IF \A k \in 1 .. UsizeLimbs : m[k] = 0 THEN << >>
    ELSE Append(DecimalDigits(Div10(m)), Rem10(m, 1))

\* the digits of a run without its leading zeros
RECURSIVE Significant(_)
Significant(b) ==
    IF b = << >> THEN << >>
    ELSE IF Head(b) = "0" THEN Significant(Tail(b))
    ELSE [k \in 1 .. Len(b) |-> ToDigit(b[k])]

Finished == pc \in { "returned", "panicked" }

C15_DecimalValueOfDigitRun ==
    (Finished /\ Len(input) >= 2 /\ IsDigitBody(Tail(input))) =>
        /\ result.kind = "Ok"
        /\ \E g \in DOMAIN result.variables :
              /\ DOMAIN result.variables = { g }
              /\ g.kind = "Numbered"
              /\ DecimalDigits(g.number) = Significant(Tail(input))
              /\ result.variables[g] = << Range(0, ByteLen(input)) >>

(***************************************************************************)
(* C16 as stated: a string with an invalid escape sequence is rejected     *)
(* with InvalidEscapeSequences carrying the string as supplied and no      *)
(* Replacement; a string whose escapes are all valid, or that has none, is *)
(* constructed.                                                            *)
(***************************************************************************)
\* every backslash of the string is followed by a character it can escape
RECURSIVE ValidlyEscaped(_)
ValidlyEscaped(s) ==
    IF s = << >> THEN TRUE
    ELSE IF Head(s) # Backslash THEN ValidlyEscaped(Tail(s))
    ELSE /\ Len(s) >= 2
         /\ s[2] \in { "t", Backslash }
         /\ ValidlyEscaped(SubSeq(s, 3, Len(s)))

Rejected == pc = "failed"

Constructed == pc = "constructed"

InvalidEscapeIsRejected ==
    (pc # "new" /\ ~ValidlyEscaped(raw)) =>
        /\ Rejected
        /\ replacement.kind = "InvalidEscapeSequences"
        /\ replacement.expression = raw
        /\ replacement.repl = << >>

C16_ValidEscapesConstruct ==
    /\ InvalidEscapeIsRejected
    /\ ValidlyEscaped(raw) => ~Rejected

(***************************************************************************)
(* C16 amended: a string with an invalid escape sequence is rejected with  *)
(* InvalidEscapeSequences carrying the string as supplied and no           *)
(* Replacement; a string whose escapes are all valid, or that has none, is *)
(* never rejected with InvalidEscapeSequences: it is constructed if the    *)
(* extraction of variables from the unescaped string returns Ok, and is    *)
(* rejected with VariableError if that returns MismatchedBraces.           *)
(***************************************************************************)
C16_InvalidEscapesAreRejected ==
    /\ InvalidEscapeIsRejected
    /\ ValidlyEscaped(raw) =>
          /\ replacement.kind # "InvalidEscapeSequences"
          /\ Rejected => (result.kind = "MismatchedBraces" /\ replacement.kind = "VariableError")
          /\ Constructed => (result.kind = "Ok" /\ replacement.kind = "Replacement")

\* `\t$\z` and the like: a valid escape and a variable before the invalid escape
C16_Witness ==
    /\ Rejected
    /\ replacement = InvalidEscapeSequences(raw)
    /\ Len(raw) = MaxRaw
    /\ raw[1] = Backslash
    /\ raw[2] = "t"
    /\ raw[3] = Dollar

(***************************************************************************)
(* C17: for an action that does not override act_with_context (a closure,  *)
(* Upper, Lower) the call act_with_context(input, context) returns what    *)
(* act(input) returns, for every input and every context.                  *)
(***************************************************************************)
C17_ContextIsIgnored ==
    (pc = "acted" /\ action \in Closures /\ call.op = "act_with_context") =>
        outcome = Returned(ClosureAct(action, call.input))

\* Upper called on "ßa" with a context that binds both groups
C17_Witness ==
    /\ pc = "acted"
    /\ action = "Upper"
    /\ call.op = "act_with_context"
    /\ call.input = << "ß", "a" >>
    /\ DOMAIN call.context = ContextGroups
    /\ outcome = Returned(<< "ẞ", "A" >>)

(***************************************************************************)
(* C18.  Negation convention: for a scoper whose query has an ignored      *)
(* capture, the ranges returned are the bytes under any capture of the     *)
(* query (P) less the bytes under its ignored captures (N), as ascending   *)
(* maximal runs; they lie within P and share no byte with N.  For a query  *)
(* without ignored capture the ranges returned are P.                      *)
(***************************************************************************)
\* the bytes under the nodes that the captures `names` hit in the tree
BytesUnder(names) ==
    { b \in 0 .. MaxPos - 1 :
        \E name \in names : \E n \in tree.matches[name] : n.start <= b /\ b < n.end }

\* the bytes within the ranges returned
BytesIn(ranges) ==
    { b \in 0 .. MaxPos - 1 : \E k \in 1 .. Len(ranges) : ranges[k].start <= b /\ b < ranges[k].end }

\* the ranges are the maximal runs of `bytes`, in ascending order
MaximalRunsOf(ranges, bytes) ==
    /\ BytesIn(ranges) = bytes
    /\ \A k \in 1 .. Len(ranges) : ranges[k].start < ranges[k].end
    /\ \A k \in 1 .. Len(ranges) - 1 : ranges[k].end < ranges[k + 1].start

IgnoredCaptures == { name \in scoper.q.captures : IsIgnored(name) }

HasScoped == pc = "scoped" /\ scoped.kind = "Ranges"

C18_NegationConvention ==
    HasScoped =>
        LET P == BytesUnder(scoper.q.captures)
            N == BytesUnder(IgnoredCaptures)
        IN  /\ MaximalRunsOf(scoped.ranges, P \ N)
            /\ BytesIn(scoped.ranges) \subseteq P
            /\ BytesIn(scoped.ranges) \cap N = { }
            /\ IgnoredCaptures = { } => MaximalRunsOf(scoped.ranges, P)

\* a string node with an ignored node inside it: what is returned is the
\* string before and after the ignored node
C18_Witness ==
    /\ HasScoped
    /\ IgnoredCaptures # { }
    /\ BytesUnder(IgnoredCaptures) # { }
    /\ Len(scoped.ranges) = 2
    /\ BytesIn(scoped.ranges) # { }

(***************************************************************************)
(* C19.  A custom query that does not compile against the grammar of its   *)
(* language is rejected with a QueryError by from_str, before a scoper is  *)
(* built and before any input is parsed; hence every custom query value    *)
(* that exists converts into a compiled query without panicking, in each   *)
(* of the three languages.                                                 *)
(***************************************************************************)
\* the text handed to from_str compiles against the grammar of the language
Compiles == query.lang \in query.source.grammars

InvalidQuery == ExpectFailed("Valid query, as object cannot be constructed otherwise")

C19_InvalidCustomQueryIsRejected ==
    /\ query.kind # "None" => (query.kind = "QueryError" <=> ~Compiles)
    /\ query.kind = "QueryError" =>
           pc = "rejected" /\ scoper = NoScoper /\ tree = NoTree /\ scoped = NotScoped
    /\ query.kind = "Custom" =>
           /\ Compiles
           /\ IntoTSQuery(query).kind = "Query"
           /\ scoped # InvalidQuery
           /\ pc \in { "ready", "scoped", "panicked" } =>
                  scoper.lang = query.lang /\ scoper.q.kind = "Query"

\* a query that compiles against another grammar than that of the language it
\* is given for has been rejected
C19_Witness ==
    /\ pc = "rejected"
    /\ query.kind = "QueryError"
    /\ query.source.grammars # { }
    /\ ~Compiles

NoTreeParsed == ExpectFailed("No language set in parser, or other unrecoverable error")

RECURSIVE WithStatus(_, _)
WithStatus(fragments, status) ==
    IF fragments = << >> THEN << >>
    ELSE (IF Head(fragments).status = status THEN << Head(fragments).content >> ELSE << >>)
         \o WithStatus(Tail(fragments), status)

\* the parts of the text that the ranges (ascending, apart) leave uncovered,
\* from offset `from` on
RECURSIVE Gaps(_, _, _)
Gaps(text, ranges, from) ==
    IF ranges = << >>
    THEN IF from < Len(text) THEN << SubSeq(text, from + 1, Len(text)) >> ELSE << >>
    ELSE (IF from < Head(ranges).start
          THEN << SubSeq(text, from + 1, Head(ranges).start) >> ELSE << >>)
         \o Gaps(text, Tail(ranges), Head(ranges).end)

\* what the context-free operations of a list of actions make of a text
RECURSIVE ActedOn(_, _)
ActedOn(actions, text) ==
    IF actions = << >> THEN text
    ELSE ActedOn(Tail(actions),
                 IF Head(actions) = "Replacement" THEN replacement.repl
                 ELSE IF Head(actions) = "Upper" THEN Upper(text) ELSE Lower(text))

\* `view.to_string()`
RECURSIVE ToString(_)
ToString(fragments) ==
    IF fragments = << >> THEN << >>
    ELSE Head(fragments).content \o ToString(Tail(fragments))

HasView == pc \in { "built", "applied" }

C21_OutOfScopeIsPreserved ==
    HasView =>
        LET inScope == WithStatus(view.fragments, "InScope")
            outOfScope == WithStatus(view.fragments, "OutOfScope")
        IN  /\ outOfScope = Gaps(input, scoped.ranges, 0)
            /\ Len(inScope) = Len(scoped.ranges)
            /\ \A k \in 1 .. Len(inScope) :
                   inScope[k] = ActedOn(view.applied,
                                        SubSeq(input, scoped.ranges[k].start + 1,
                                               scoped.ranges[k].end))
            /\ \A j \in 1 .. Len(view.fragments) - 1 :
                   view.fragments[j].status # view.fragments[j + 1].status
            /\ view.fragments # << >> =>
                   (view.fragments[1].status = "InScope"
                        <=> (scoped.ranges # << >> /\ scoped.ranges[1].start = 0))
            /\ (input = << "a", "!", "a" >> /\ scoped.ranges = << Range(1, 2) >>
                    /\ view.applied = << "Replacement" >>)
                   => ToString(view.fragments) = << "a", "_", "a" >>

\* "a!a" with its "!" in scope has become "a_a"
C21_Witness ==
    /\ pc = "applied"
    /\ input = << "a", "!", "a" >>
    /\ scoped.ranges = << Range(1, 2) >>
    /\ view.applied = << "Replacement" >>
    /\ ToString(view.fragments) = << "a", "_", "a" >>

(***************************************************************************)
(* C22.  Replacement::act returns the stored template, which is the        *)
(* unescaped form of the string the Replacement was constructed from, for  *)
(* every input: the result does not depend on the input, and the variable  *)
(* expressions of the template are left as they are.                       *)
(***************************************************************************)
ActedContextFree == pc = "acted" /\ call.op = "act"

C22_ActReturnsTemplate ==
    ActedContextFree =>
        /\ Unescape(raw) = Some(input)
        /\ replacement.repl = input
        /\ outcome = Returned(input)

\* a template with an escape and a variable, returned for a non-empty input
C22_Witness ==
    /\ ActedContextFree
    /\ call.input # << >>
    /\ raw # input
    /\ DOMAIN replacement.variables # { }
    /\ outcome = Returned(input)

(***************************************************************************)
(* C23.  The upper stage maps every character to its uppercase form, with  *)
(* 'ß' mapped to the one capital 'ẞ' and never to "SS", and leaves a       *)
(* character without case as it is; the lower stage maps 'ẞ' to 'ß' and    *)
(* every character to its lowercase form.  "aAßẞ!" becomes "AAẞẞ!" in      *)
(* upper case and "AaẞßA!" becomes "aaßßa!" in lower case.                 *)
(***************************************************************************)
UpperOf(c) == IF c = "a" THEN "A" ELSE IF c = "ß" THEN "ẞ" ELSE c

LowerOf(c) == IF c = "A" THEN "a" ELSE IF c = "ẞ" THEN "ß" ELSE c

ClosureActed == pc = "acted" /\ action \in Closures

C23_UpperAndLowerStage ==
    /\ ClosureActed =>
           /\ outcome.kind = "Returned"
           /\ Len(outcome.text) = Len(call.input)
           /\ \A k \in 1 .. Len(call.input) :
                  outcome.text[k] = IF action = "Upper" THEN UpperOf(call.input[k])
                                    ELSE LowerOf(call.input[k])
    /\ Upper(<< "a", "A", "ß", "ẞ", "!" >>) = << "A", "A", "ẞ", "ẞ", "!" >>
    /\ Lower(<< "A", "a", "ẞ", "ß", "A", "!" >>) = << "a", "a", "ß", "ß", "a", "!" >>
    /\ Upper(<< Cjk, "!" >>) = << Cjk, "!" >> /\ Lower(<< Cjk, "!" >>) = << Cjk, "!" >>

\* the upper stage has been given "aß", or "ßa"
C23_Witness ==
    /\ ClosureActed
    /\ action = "Upper"
    /\ Len(call.input) = 2
    /\ \E k \in 1 .. 2 : call.input[k] = "ß" /\ outcome.text[k] = "ẞ"
    /\ \E k \in 1 .. 2 : call.input[k] = "a" /\ outcome.text[k] = "A"

(***************************************************************************)
(* C24.  The upper stage, the lower stage and the context-free Replacement *)
(* are idempotent: applied to its own output, the action returns that      *)
(* output again, act(act(x)) = act(x).                                     *)
(***************************************************************************)
C24_Step ==
    (pc = "acted" /\ pc' = "acted twice") =>
        /\ call'.input = outcome.text
        /\ outcome' = outcome

C24_ActionsAreIdempotent == [][C24_Step]_vars

\* the upper stage has been applied to "Aẞ", which it had made of "aß" or the like
C24_Witness ==
    /\ pc = "acted twice"
    /\ action = "Upper"
    /\ call.input = << "A", "ẞ" >>
    /\ outcome = Returned(<< "A", "ẞ" >>)

(***************************************************************************)
(* C25.  The ranges a language scoper returns are normalized, whether they *)
(* are the merged positive run or what is left of it after the negative    *)
(* run is subtracted: they ascend, and no two of them overlap or touch.    *)
(* Merging them again changes nothing.                                     *)
(***************************************************************************)
Normalized(ranges) ==
    \A k \in 1 .. Len(ranges) - 1 : ranges[k].end < ranges[k + 1].start

AsSet(ranges) == { ranges[k] : k \in 1 .. Len(ranges) }

C25_ReturnedRangesAreNormalized ==
    HasScoped =>
        /\ Normalized(scoped.ranges)
        /\ Merge(AsSet(scoped.ranges)) = scoped.ranges

\* two nodes that touch, hit by the two captures of a query without ignored
\* capture, have been returned as one range
C25_Witness ==
    /\ HasScoped
    /\ IgnoredCaptures = { }
    /\ \E c1, c2 \in scoper.q.captures :
           \E n1 \in tree.matches[c1], n2 \in tree.matches[c2] :
               /\ c1 # c2
               /\ n1.end = n2.start
               /\ scoped.ranges = << Range(n1.start, n2.end) >>

(***************************************************************************)
(* C26.  A scoper has a negative query if and only if its query has a      *)
(* capture whose name starts with _SRGN_IGNORE.  In the negative query the *)
(* captures whose name does not start with the tag are disabled and those  *)
(* whose name starts with it stay enabled; in the positive query every     *)
(* capture is enabled.                                                     *)
(***************************************************************************)
Tagged(name) == Len(name) >= 1 /\ Head(name) = "_SRGN_IGNORE"

C26_NegativeQuery ==
    scoper.kind = "Scoper" =>
        /\ scoper.q.kind = "Query"
        /\ scoper.q.disabled = { }
        /\ scoper.nq.kind = "Query" <=> \E name \in scoper.q.captures : Tagged(name)
        /\ scoper.nq.kind # "Query" => scoper.nq = NoTSQuery
        /\ scoper.nq.kind = "Query" =>
               /\ scoper.nq.captures = scoper.q.captures
               /\ \A name \in scoper.q.captures : name \in scoper.nq.disabled <=> ~Tagged(name)

\* the scoper of the prepared query for C# strings: @string is disabled in its
\* negative query, @_SRGN_IGNORE is not
C26_Witness ==
    /\ scoper.kind = "Scoper"
    /\ scoper.nq.kind = "Query"
    /\ scoper.nq.disabled = { << "string" >> }
    /\ << "_SRGN_IGNORE" >> \in scoper.nq.captures \ scoper.nq.disabled

(***************************************************************************)
(* C27.  Variable extraction is total: every transition consumes exactly   *)
(* one character, from left to right, or returns MismatchedBraces; after   *)
(* the last character the function returns Ok or MismatchedBraces; no      *)
(* transition panics, and neither the start offset `i - (1 + n)` nor the   *)
(* depth `n_braces - 1` goes below zero.                                   *)
(***************************************************************************)
C27_Step ==
    pc = "scan" =>
        /\ pc' # "panicked"
        /\ \/ i < Len(input) /\ i' = i + 1 /\ pc' = "scan" /\ result' = result
           \/ i < Len(input) /\ i' = i /\ pc' = "returned"
                             /\ result' = MismatchedBraces(input)
           \/ i = Len(input) /\ i' = i /\ pc' = "returned"
                             /\ result'.kind \in { "Ok", "MismatchedBraces" }
        /\ state'.start >= 0
        /\ state'.n_braces >= 0
        /\ input' = input

C27_ExtractionIsTotal == [][C27_Step]_vars

(***************************************************************************)
(* C28.  Boxing preserves the behaviour of an action: act_with_context on  *)
(* a Box<dyn Action> that holds an action returns what act_with_context on *)
(* the action itself returns for the same input and context, so that a     *)
(* boxed Replacement is still handed the capture groups.                   *)
(***************************************************************************)
C28_BoxingPreservesActWithContext ==
    (pc = "acted" /\ call.op = "boxed act_with_context") =>
        outcome = IF action = "Replacement"
                  THEN ActWithContextResult(replacement, call.input, call.context)
                  ELSE Returned(DefaultActWithContext(action, call.input, call.context))

(***************************************************************************)
(* C29: extraction fails as a whole.  A brace error, wherever in the       *)
(* template the scan meets it (a variable in progress at a brace depth     *)
(* above 0 that is neither continued nor closed, or the end of the         *)
(* template there), makes the function return the MismatchedBraces error   *)
(* and nothing else: the error carries the complete template, and the      *)
(* ranges recorded before the error are not part of the result.            *)
(***************************************************************************)
C29_ExtractionFailsAtomically ==
    /\ ReturnedErr =>
          /\ result.expression = input
          /\ result.variables = << >>
          /\ DOMAIN result = { "kind", "variables", "expression" }
    /\ (pc = "returned" /\ VariableInProgress /\ state.n_braces > 0) => ReturnedErr

\* "$a${a}a", "$1${{a" and the like: a variable is on record when the error is met
C29_Witness ==
    /\ ReturnedErr
    /\ TotalRanges(variables) >= 1
    /\ i > 2
    /\ result = MismatchedBraces(input)

(***************************************************************************)
(* C30: the ranges of an accepted template.  Taken together over all       *)
(* groups, the recorded ranges are pairwise disjoint; each has             *)
(* 0 <= start < end <= the length of the template and is at least 2 long;  *)
(* two ranges touch (the end of one is the start of the other) only if     *)
(* the template holds an expression of the first group followed, with no   *)
(* character in between, by an expression of the second.                   *)
(***************************************************************************)
\* the occurrences on record: a group and an index into its ranges
Occurrences(map) == UNION { { << g, k >> : k \in 1 .. Len(map[g]) } : g \in DOMAIN map }

RangeOf(map, o) == map[o[1]][o[2]]

Disjoint(r, q) == r.end <= q.start \/ q.end <= r.start

\* the template holds an expression of g directly followed by one of h
FollowsDirectly(s, g, h) ==
    \E p \in Positions, n \in 0 .. MaxLen, len \in 1 .. MaxLen, m \in 0 .. MaxLen,
       len2 \in 1 .. MaxLen :
        /\ BackToBack(s, p, n, len, m, len2)
        /\ GroupOf(BodyAt(s, p, n, len)) = g
        /\ GroupOf(BodyAt(s, EndAt(p, n, len), m, len2)) = h

C30_RangesAreDisjoint ==
    ReturnedOk =>
        /\ \A o \in Occurrences(result.variables) :
              LET r == RangeOf(result.variables, o)
              IN  /\ 0 <= r.start
                  /\ r.start < r.end
                  /\ r.end <= ByteLen(input)
                  /\ r.end - r.start >= 2
        /\ \A o, u \in Occurrences(result.variables) :
              LET r == RangeOf(result.variables, o)
                  q == RangeOf(result.variables, u)
              IN  o # u =>
                     /\ Disjoint(r, q)
                     /\ r.end = q.start => FollowsDirectly(input, o[1], u[1])

\* "é$a$1", "é$a$a}" and the like: two ranges that touch, after a two-byte character
C30_Witness ==
    /\ ReturnedOk
    /\ input # << >>
    /\ input[1] = NonAscii
    /\ \E o, u \in Occurrences(result.variables) :
          /\ o # u
          /\ RangeOf(result.variables, o).end = RangeOf(result.variables, u).start

(***************************************************************************)
(* C31: try_from resolves the escape sequences before it extracts the      *)
(* variables.  A string with an invalid escape sequence is rejected with   *)
(* InvalidEscapeSequences whatever its braces are; and every Replacement   *)
(* that is constructed stores the unescaped string, the text that act      *)
(* returns, and its ranges are positions in that text: each lies within    *)
(* it and covers there an expression of the group it is recorded under.    *)
(***************************************************************************)
HoldsReplacement == replacement.kind = "Replacement"

C31_EscapesBeforeVariables ==
    /\ (Rejected /\ ~Unescape(raw).some) => replacement = InvalidEscapeSequences(raw)
    /\ HoldsReplacement =>
          /\ Unescape(raw).some
          /\ replacement.repl = Unescape(raw).text
          /\ ActResult(replacement, << >>) = Returned(Unescape(raw).text)
          /\ \A g \in DOMAIN replacement.variables :
                \A k \in 1 .. Len(replacement.variables[g]) :
                    LET r == replacement.variables[g][k]
                    IN  /\ 0 <= r.start
                        /\ r.start < r.end
                        /\ r.end <= ByteLen(replacement.repl)
                        /\ SpellsExpressionOf(
                               SubSeq(Utf8(replacement.repl), r.start + 1, r.end), g)

=============================================================================
